---- MODULE Spec2Model ----
(***************************************************************************)
(* Model of drivers/iommu/msm_dma_iommu_mapping.c: the reference-counted   *)
(* cache of DMA mappings, its per-buffer list (msm_iommu_data.map_list,    *)
(* guarded by data->lock) and per-device list (dev->iommu_map_list,        *)
(* guarded by dev->iommu_map_lock), and the four entry points              *)
(* msm_dma_map_sg_attrs, msm_dma_unmap_sg, msm_dma_unmap_all_for_dev and   *)
(* msm_dma_buf_freed, run by concurrent threads.                           *)
(*                                                                         *)
(* The file carries two definitions of msm_dma_map_sg_attrs.  The one at   *)
(* lines 55-90 shares its state (data->map_list, dev->iommu_map_list, the  *)
(* two mutexes, map->refcount) with the unmap and teardown functions of    *)
(* lines 292-342 and is the one modelled as the Map operation.  The        *)
(* kref-based __msm_dma_map_sg of lines 108-219 works on msm_iommu_meta,   *)
(* which no unmap or teardown function of the file touches; its flag       *)
(* normalisation is kept as the operators late_unmap and kref_initial, for *)
(* comparison with not_lazy and initial_refcount.                          *)
(*                                                                         *)
(* Refcounts are C ints; within the bounds below they stay far from the    *)
(* 32-bit limits, so plain integers are used.                              *)
(***************************************************************************)
EXTENDS Integers, Sequences, FiniteSets, TLC

\* ------------------------------------------------------------------ bounds
\* Total number of entry-point calls made by all threads in one behaviour.
MaxCalls == 3
\* The same, in the behaviours that keep to one device and one buffer.
MaxPairCalls == 5
\* The same, in the behaviours checked under fairness.
MaxLiveCalls == 3
\* How far the passes of one msm_dma_buf_freed call are counted.
MaxPasses == 3

\* ------------------------------------------------------- program constants
\* include/linux/dma-mapping.h (not among the files under src/): the flag is
\* one bit of the attrs mask above bit 0, which DMA_ATTR_WRITE_BARRIER takes;
\* bit 11 stands for it here, and nothing below depends on which bit it is
\* beyond its not being bit 0.
DMA_ATTR_NO_DELAYED_UNMAP == 2 ^ 11
\* Another attrs bit callers commonly pass together with it.
DMA_ATTR_SKIP_CPU_SYNC == 2 ^ 5

Threads == {"t1", "t2"}
Devs == {"dev1", "dev2"}
Bufs == {"buf1", "buf2"}
Dirs == {"DMA_TO_DEVICE", "DMA_FROM_DEVICE"}
AttrsSet == {0, DMA_ATTR_SKIP_CPU_SYNC, DMA_ATTR_NO_DELAYED_UNMAP,
             DMA_ATTR_NO_DELAYED_UNMAP + DMA_ATTR_SKIP_CPU_SYNC}
NentsSet == {1}
MapIds == 1..MaxCalls
NoOne == "none"
NULL == 0

VARIABLES
    pc,              \* per thread: where it is in the entry point it runs
    arg,             \* per thread: the arguments of the running call
    todo,            \* per thread: what list_for_each_entry_safe has yet to visit
    retry,           \* per thread: msm_dma_buf_freed's local retry
    ret,             \* per thread: what the running call is about to return
    iommu_map_lock,  \* per device: holder of dev->iommu_map_lock
    lock,            \* per buffer: holder of data->lock
    iommu_map_list,  \* per device: dev->iommu_map_list, head first
    map_list,        \* per buffer: data->map_list, head first
    heap,            \* the allocated struct msm_iommu_map objects
    bufState,        \* per buffer: "live", "freeing" (msm_dma_buf_freed runs), "freed"
    extMap,          \* per (device, buffer): successful dma_map_sg_attrs calls
    extUnmap,        \* per (device, buffer): dma_unmap_sg calls
    hist,            \* per (device, buffer): what happened to the pair, in order
    calls,           \* entry-point calls made so far
    scope,           \* the devices, buffers and directions in use, the calls allowed,
                     \* and whether unmaps of an unmapped pair are unlimited
    klog,            \* per buffer: warnings written to the kernel log about it;
                     \* lines 22-90 and 292-342 hold no WARN, pr_warn or printk
    passes           \* per thread: passes of the running msm_dma_buf_freed's
                     \* do/while so far, counted up to scope.passes

vars == <<pc, arg, todo, retry, ret, iommu_map_lock, lock, iommu_map_list,
          map_list, heap, bufState, extMap, extUnmap, hist, calls, scope, passes, klog>>

NoArg == [op |-> "none", dev |-> NoOne, data |-> NoOne, dir |-> NoOne]
NoRet == [nents |-> 0, dma_address |-> 0]

\* ----------------------------------------------------------------- helpers
RECURSIVE BitAnd(_, _)
BitAnd(a, b) ==
    IF a = 0 \/ b = 0 THEN 0
    ELSE (a % 2) * (b % 2) + 2 * BitAnd(a \div 2, b \div 2)

RECURSIVE SumSeq(_)
SumSeq(s) == IF s = <<>> THEN 0 ELSE Head(s) + SumSeq(Tail(s))

\* list_add(new, head): insertion right after the list head.
list_add(id, list) == <<id>> \o list

\* list_del(entry)
list_del(id, list) == SelectSeq(list, LAMBDA x : x # id)

\* A lookup that compares the wrong field and so never matches.
msm_iommu_map_lookup_never(data, dev) ==
    LET hits == {i \in 1..Len(map_list[data]) : heap[map_list[data][i]].data = dev}
    IN IF hits = {} THEN NULL
       ELSE map_list[data][CHOOSE i \in hits : \A j \in hits : i <= j]

\* A lookup that looks at the head of the list only.
msm_iommu_map_lookup_head(data, dev) ==
    IF map_list[data] # <<>> /\ heap[Head(map_list[data])].dev = dev
    THEN Head(map_list[data])
    ELSE NULL

\* A lookup that takes the first entry, whatever its device.
msm_iommu_map_lookup_first(data, dev) ==
    IF map_list[data] = <<>> THEN NULL ELSE Head(map_list[data])

\* msm_iommu_map_lookup: the first entry of data->map_list whose dev matches.
msm_iommu_map_lookup(data, dev) ==
    LET hits == {i \in 1..Len(map_list[data]) : heap[map_list[data][i]].dev = dev}
    IN IF hits = {} THEN NULL
       ELSE map_list[data][CHOOSE i \in hits : \A j \in hits : i <= j]

\* Whether the caller set the flag.
HasNoDelayedUnmap(attrs) == (attrs \div DMA_ATTR_NO_DELAYED_UNMAP) % 2 = 1

\* An initial refcount that keeps no reference back for the buffer-free path.
initial_refcount_one(attrs) == 1

\* int not_lazy = (attrs & DMA_ATTR_NO_DELAYED_UNMAP);
not_lazy(attrs) == BitAnd(attrs, DMA_ATTR_NO_DELAYED_UNMAP)

\* map->refcount = 2 - not_lazy;
initial_refcount(attrs) == 2 - not_lazy(attrs)

\* __msm_dma_map_sg: int late_unmap = !(attrs & DMA_ATTR_NO_DELAYED_UNMAP);
late_unmap(attrs) == IF BitAnd(attrs, DMA_ATTR_NO_DELAYED_UNMAP) = 0 THEN 1 ELSE 0

\* __msm_dma_map_sg: kref_init(&iommu_map->ref); if (late_unmap) kref_get(...)
kref_initial(attrs) == 1 + late_unmap(attrs)

\* kmalloc: the lowest free object.
kmalloc == CHOOSE id \in MapIds \ DOMAIN heap :
               \A other \in MapIds \ DOMAIN heap : id <= other

\* dma_map_sg_attrs hands out a device address no live mapping uses: here the
\* next one in order.
TotalExtMap == SumSeq([i \in 1..4 |->
    LET ds == <<"dev1", "dev1", "dev2", "dev2">>
        bs == <<"buf1", "buf2", "buf1", "buf2">>
    IN extMap[ds[i]][bs[i]]])
fresh_dma_address == TotalExtMap + 1

InFlight(t) == pc[t] # "idle"
CanCall(t) == pc[t] = "idle" /\ calls < scope.calls
InScope(dev, data) == dev \in scope.devs /\ data \in scope.bufs
\* An msm_dma_unmap_sg of a pair that has no record changes nothing; where the
\* scope says so a caller may make such calls without end, and they are
\* neither counted nor kept in hist.
Uncounted(dev, data) ==
    scope.unlimited /\ msm_iommu_map_lookup(data, dev) = NULL

\* A release that forgets list_del(&map->dev_node).
msm_iommu_map_free_data_node(id) ==
    /\ map_list' = [map_list EXCEPT ![heap[id].data] = list_del(id, @)]
    /\ iommu_map_list' = iommu_map_list
    /\ extUnmap' = [extUnmap EXCEPT ![heap[id].dev][heap[id].data] = @ + 1]
    /\ heap' = [x \in DOMAIN heap \ {id} |-> heap[x]]

\* msm_iommu_map_free: both list_del, dma_unmap_sg, kfree.
msm_iommu_map_free(id) ==
    /\ map_list' = [map_list EXCEPT ![heap[id].data] = list_del(id, @)]
    /\ iommu_map_list' = [iommu_map_list EXCEPT ![heap[id].dev] = list_del(id, @)]
    /\ extUnmap' = [extUnmap EXCEPT ![heap[id].dev][heap[id].data] = @ + 1]
    /\ heap' = [x \in DOMAIN heap \ {id} |-> heap[x]]

Event(t, ev, addr) == [by |-> t, ev |-> ev, addr |-> addr]
Log(dev, data, ev) == hist' = [hist EXCEPT ![dev][data] = Append(@, ev)]

\* -------------------------------------------------------------------- Init
InitState ==
    /\ pc = [t \in Threads |-> "idle"]
    /\ arg = [t \in Threads |-> NoArg]
    /\ todo = [t \in Threads |-> <<>>]
    /\ retry = [t \in Threads |-> 0]
    /\ ret = [t \in Threads |-> NoRet]
    /\ iommu_map_lock = [d \in Devs |-> NoOne]
    /\ lock = [b \in Bufs |-> NoOne]
    /\ iommu_map_list = [d \in Devs |-> <<>>]
    /\ map_list = [b \in Bufs |-> <<>>]
    /\ heap = [x \in {} |-> NoArg]
    /\ bufState = [b \in Bufs |-> "live"]
    /\ extMap = [d \in Devs |-> [b \in Bufs |-> 0]]
    /\ extUnmap = [d \in Devs |-> [b \in Bufs |-> 0]]
    /\ hist = [d \in Devs |-> [b \in Bufs |-> <<>>]]
    /\ calls = 0
    /\ passes = [t \in Threads |-> 0]
    /\ klog = [b \in Bufs |-> 0]

\* Every device and buffer in use, every call in one direction.
Init ==
    /\ InitState
    /\ scope = [devs |-> Devs, bufs |-> Bufs, dirs |-> {"DMA_TO_DEVICE"},
                calls |-> MaxCalls, unlimited |-> FALSE, passes |-> 1]

\* One device and one buffer in use, both directions, and longer runs.
InitPair ==
    /\ InitState
    /\ scope = [devs |-> {"dev1"}, bufs |-> {"buf1"}, dirs |-> Dirs,
                calls |-> MaxPairCalls, unlimited |-> FALSE,
                passes |-> MaxPasses]

\* One device and both buffers in use, one direction; unmaps of an unmapped
\* pair without end.
InitLive ==
    /\ InitState
    /\ scope = [devs |-> {"dev1"}, bufs |-> Bufs, dirs |-> {"DMA_TO_DEVICE"},
                calls |-> MaxLiveCalls, unlimited |-> TRUE, passes |-> 1]

\* ------------------------------------------------- msm_dma_map_sg_attrs
\* The pointer arguments a caller may pass as NULL.
NullArgs == {"dev", "dmabuf"}

\* The call with dev or dmabuf NULL. Nothing tests the pointers: line 60 reads
\* dmabuf->priv and line 63 passes &dev->iommu_map_lock to mutex_lock, so the
\* thread faults on the zero page before it holds any mutex and is killed.
MapNullArg(t, which) ==
    /\ CanCall(t)
    /\ which \in NullArgs
    /\ arg' = [arg EXCEPT ![t] = [op |-> "map_null", dev |-> NoOne,
                                   data |-> NoOne, dir |-> NoOne]]
    /\ pc' = [pc EXCEPT ![t] = "oops"]
    /\ calls' = calls + 1
    /\ UNCHANGED <<todo, retry, ret, iommu_map_lock, lock, iommu_map_list,
                   map_list, heap, bufState, extMap, extUnmap, hist, scope,
                   passes, klog>>

\* The call and mutex_lock(&dev->iommu_map_lock).
MapLockDev(t, dev, data, dir) ==
    /\ CanCall(t)
    /\ InScope(dev, data)
    /\ dir \in scope.dirs
    /\ bufState[data] = "live"
    /\ iommu_map_lock[dev] = NoOne
    /\ iommu_map_lock' = [iommu_map_lock EXCEPT ![dev] = t]
    /\ arg' = [arg EXCEPT ![t] = [op |-> "map", dev |-> dev, data |-> data,
                                   dir |-> dir]]
    /\ ret' = [ret EXCEPT ![t] = NoRet]
    /\ pc' = [pc EXCEPT ![t] = "map_lock_data"]
    /\ calls' = calls + 1
    /\ UNCHANGED <<todo, retry, lock, iommu_map_list, map_list, heap, bufState,
                   extMap, extUnmap, hist, scope,
                   passes, klog>>

\* mutex_lock(&data->lock).
MapLockData(t) ==
    /\ pc[t] = "map_lock_data"
    /\ lock[arg[t].data] = NoOne
    /\ lock' = [lock EXCEPT ![arg[t].data] = t]
    /\ pc' = [pc EXCEPT ![t] = "map_body"]
    /\ UNCHANGED <<arg, todo, retry, ret, iommu_map_lock, iommu_map_list,
                   map_list, heap, bufState, extMap, extUnmap, hist, calls, scope,
                   passes, klog>>

\* The cache hit: refcount++, the cached address is handed back.
MapHit(t, map, nents) ==
    /\ heap' = [heap EXCEPT ![map].refcount = @ + 1]
    /\ ret' = [ret EXCEPT ![t] = [nents |-> nents,
                                   dma_address |-> heap[map].dma_address]]
    /\ Log(arg[t].dev, arg[t].data, Event(t, "hit", heap[map].dma_address))
    /\ UNCHANGED <<iommu_map_list, map_list, extMap, extUnmap>>

\* A miss that builds the record without testing what dma_map_sg_attrs returned.
MapMissUnchecked(t, attrs, mapped) ==
    LET a == arg[t]
        id == kmalloc
    IN /\ heap' = [x \in DOMAIN heap \cup {id} |->
                     IF x = id
                     THEN [dev |-> a.dev, data |-> a.data, dir |-> a.dir,
                           nents |-> mapped,
                           refcount |-> initial_refcount(attrs),
                           dma_address |-> fresh_dma_address]
                     ELSE heap[x]]
       /\ map_list' = [map_list EXCEPT ![a.data] = list_add(id, @)]
       /\ iommu_map_list' = [iommu_map_list EXCEPT ![a.dev] = list_add(id, @)]
       /\ extMap' = [extMap EXCEPT ![a.dev][a.data] = IF mapped # 0 THEN @ + 1 ELSE @]
       /\ ret' = [ret EXCEPT ![t] = [nents |-> mapped,
                                      dma_address |-> fresh_dma_address]]
       /\ Log(a.dev, a.data,
              Event(t, IF HasNoDelayedUnmap(attrs) THEN "create_not_lazy"
                       ELSE "create_lazy", fresh_dma_address))
       /\ UNCHANGED extUnmap

\* The miss: dma_map_sg_attrs, and on success a new record in both lists.
MapMiss(t, attrs, mapped) ==
    LET a == arg[t]
        id == kmalloc
    IN IF mapped # 0
       THEN /\ heap' = [x \in DOMAIN heap \cup {id} |->
                          IF x = id
                          THEN [dev |-> a.dev, data |-> a.data, dir |-> a.dir,
                                nents |-> mapped,
                                refcount |-> initial_refcount(attrs),
                                dma_address |-> fresh_dma_address]
                          ELSE heap[x]]
            /\ map_list' = [map_list EXCEPT ![a.data] = list_add(id, @)]
            /\ iommu_map_list' = [iommu_map_list EXCEPT ![a.dev] = list_add(id, @)]
            /\ extMap' = [extMap EXCEPT ![a.dev][a.data] = @ + 1]
            /\ ret' = [ret EXCEPT ![t] = [nents |-> mapped,
                                           dma_address |-> fresh_dma_address]]
            /\ Log(a.dev, a.data,
                   Event(t, IF HasNoDelayedUnmap(attrs) THEN "create_not_lazy"
                         ELSE "create_lazy", fresh_dma_address))
            /\ UNCHANGED extUnmap
       ELSE /\ ret' = [ret EXCEPT ![t] = [nents |-> 0, dma_address |-> 0]]
            /\ UNCHANGED <<heap, map_list, iommu_map_list, extMap, extUnmap, hist>>

\* Lines 65-87: lookup, hit or miss, mutex_unlock(&data->lock).  attrs and nents
\* are not used before this point, so the caller's values are drawn here.
MapBody(t, attrs, nents) ==
    /\ pc[t] = "map_body"
    /\ LET map == msm_iommu_map_lookup(arg[t].data, arg[t].dev)
       IN IF map # NULL
          THEN MapHit(t, map, nents)
          ELSE \E mapped \in {0, nents} : MapMiss(t, attrs, mapped)
    /\ lock' = [lock EXCEPT ![arg[t].data] = NoOne]
    /\ pc' = [pc EXCEPT ![t] = "map_unlock_dev"]
    /\ UNCHANGED <<arg, todo, retry, iommu_map_lock, bufState, calls, scope,
                   passes, klog>>

\* mutex_unlock(&dev->iommu_map_lock); return nents;
MapUnlockDev(t) ==
    /\ pc[t] = "map_unlock_dev"
    /\ iommu_map_lock' = [iommu_map_lock EXCEPT ![arg[t].dev] = NoOne]
    /\ pc' = [pc EXCEPT ![t] = "idle"]
    /\ arg' = [arg EXCEPT ![t] = NoArg]
    /\ ret' = [ret EXCEPT ![t] = NoRet]
    /\ UNCHANGED <<todo, retry, lock, iommu_map_list, map_list, heap,
                   bufState, extMap, extUnmap, hist, calls, scope,
                   passes, klog>>

\* ------------------------------------------------------ msm_dma_unmap_sg
\* The call and mutex_lock(&dev->iommu_map_lock).
UnmapLockDev(t, dev, data) ==
    /\ pc[t] = "idle"
    /\ InScope(dev, data)
    /\ CanCall(t) \/ Uncounted(dev, data)
    /\ bufState[data] = "live"
    /\ iommu_map_lock[dev] = NoOne
    /\ iommu_map_lock' = [iommu_map_lock EXCEPT ![dev] = t]
    /\ arg' = [arg EXCEPT ![t] = [op |-> "unmap", dev |-> dev, data |-> data,
                                   dir |-> NoOne]]
    /\ ret' = [ret EXCEPT ![t] = NoRet]
    /\ pc' = [pc EXCEPT ![t] = "unmap_lock_data"]
    /\ calls' = IF Uncounted(dev, data) THEN calls ELSE calls + 1
    /\ UNCHANGED <<todo, retry, lock, iommu_map_list, map_list, heap, bufState,
                   extMap, extUnmap, hist, scope,
                   passes, klog>>

\* mutex_lock(&data->lock).
UnmapLockData(t) ==
    /\ pc[t] = "unmap_lock_data"
    /\ lock[arg[t].data] = NoOne
    /\ lock' = [lock EXCEPT ![arg[t].data] = t]
    /\ pc' = [pc EXCEPT ![t] = "unmap_body"]
    /\ UNCHANGED <<arg, todo, retry, ret, iommu_map_lock, iommu_map_list,
                   map_list, heap, bufState, extMap, extUnmap, hist, calls, scope,
                   passes, klog>>

\* if (map && !--map->refcount) msm_iommu_map_free(map);
unmap_put(map) ==
    IF map = NULL
    THEN UNCHANGED <<heap, map_list, iommu_map_list, extUnmap>>
    ELSE IF heap[map].refcount - 1 = 0
         THEN msm_iommu_map_free(map)
         ELSE /\ heap' = [heap EXCEPT ![map].refcount = @ - 1]
              /\ UNCHANGED <<map_list, iommu_map_list, extUnmap>>

\* Lines 300-303: lookup, the decrement, mutex_unlock(&data->lock).
UnmapBody(t) ==
    /\ pc[t] = "unmap_body"
    /\ unmap_put(msm_iommu_map_lookup(arg[t].data, arg[t].dev))
    /\ IF Uncounted(arg[t].dev, arg[t].data)
       THEN UNCHANGED hist
       ELSE Log(arg[t].dev, arg[t].data, Event(t, "unmap", 0))
    /\ lock' = [lock EXCEPT ![arg[t].data] = NoOne]
    /\ pc' = [pc EXCEPT ![t] = "unmap_unlock_dev"]
    /\ UNCHANGED <<arg, todo, retry, ret, iommu_map_lock, bufState, extMap, calls, scope,
                   passes, klog>>

\* mutex_unlock(&dev->iommu_map_lock);
UnmapUnlockDev(t) ==
    /\ pc[t] = "unmap_unlock_dev"
    /\ iommu_map_lock' = [iommu_map_lock EXCEPT ![arg[t].dev] = NoOne]
    /\ pc' = [pc EXCEPT ![t] = "idle"]
    /\ arg' = [arg EXCEPT ![t] = NoArg]
    /\ UNCHANGED <<todo, retry, ret, lock, iommu_map_list, map_list, heap,
                   bufState, extMap, extUnmap, hist, calls, scope,
                   passes, klog>>

\* --------------------------------------------- msm_dma_unmap_all_for_dev
\* The call, mutex_lock(&dev->iommu_map_lock), and the start of
\* list_for_each_entry_safe over dev->iommu_map_list.
UnmapAllLockDev(t, dev) ==
    /\ CanCall(t)
    /\ dev \in scope.devs
    /\ iommu_map_lock[dev] = NoOne
    /\ iommu_map_lock' = [iommu_map_lock EXCEPT ![dev] = t]
    /\ arg' = [arg EXCEPT ![t] = [op |-> "unmap_all", dev |-> dev,
                                   data |-> NoOne, dir |-> NoOne]]
    /\ todo' = [todo EXCEPT ![t] = iommu_map_list[dev]]
    /\ ret' = [ret EXCEPT ![t] = NoRet]
    /\ pc' = [pc EXCEPT ![t] = "unmap_all_iter"]
    /\ calls' = calls + 1
    /\ UNCHANGED <<retry, lock, iommu_map_list, map_list, heap, bufState,
                   extMap, extUnmap, hist, scope,
                   passes, klog>>

\* data = map->data; mutex_lock(&data->lock);
UnmapAllLockData(t) ==
    /\ pc[t] = "unmap_all_iter"
    /\ todo[t] # <<>>
    /\ LET data == heap[Head(todo[t])].data
       IN /\ lock[data] = NoOne
          /\ lock' = [lock EXCEPT ![data] = t]
    /\ pc' = [pc EXCEPT ![t] = "unmap_all_free"]
    /\ UNCHANGED <<arg, todo, retry, ret, iommu_map_lock, iommu_map_list,
                   map_list, heap, bufState, extMap, extUnmap, hist, calls, scope,
                   passes, klog>>

\* A teardown that drops one reference instead of releasing.
unmap_all_put(map) == unmap_put(map)

\* A teardown that calls dma_unmap_sg and leaves the record to its holders.
unmap_all_unmap_only(map) ==
    /\ extUnmap' = [extUnmap EXCEPT ![heap[map].dev][heap[map].data] = @ + 1]
    /\ UNCHANGED <<heap, map_list, iommu_map_list>>

\* msm_dma_unmap_all_for_dev releases each record whatever its refcount.
unmap_all_release(map) == msm_iommu_map_free(map)

\* msm_iommu_map_free(map); mutex_unlock(&data->lock); and on to the next entry.
UnmapAllFree(t) ==
    /\ pc[t] = "unmap_all_free"
    /\ LET map == Head(todo[t])
           data == heap[map].data
       IN /\ unmap_all_release(map)
          /\ Log(heap[map].dev, data, Event(t, "dev_teardown", 0))
          /\ lock' = [lock EXCEPT ![data] = NoOne]
    /\ todo' = [todo EXCEPT ![t] = Tail(@)]
    /\ pc' = [pc EXCEPT ![t] = "unmap_all_iter"]
    /\ UNCHANGED <<arg, retry, ret, iommu_map_lock, bufState, extMap, calls, scope,
                   passes, klog>>

\* The loop is over: mutex_unlock(&dev->iommu_map_lock);
UnmapAllUnlockDev(t) ==
    /\ pc[t] = "unmap_all_iter"
    /\ todo[t] = <<>>
    /\ iommu_map_lock' = [iommu_map_lock EXCEPT ![arg[t].dev] = NoOne]
    /\ pc' = [pc EXCEPT ![t] = "idle"]
    /\ arg' = [arg EXCEPT ![t] = NoArg]
    /\ UNCHANGED <<todo, retry, ret, lock, iommu_map_list, map_list, heap,
                   bufState, extMap, extUnmap, hist, calls, scope,
                   passes, klog>>

\* ----------------------------------------------------- msm_dma_buf_freed
\* Some thread is inside msm_dma_map_sg_attrs or msm_dma_unmap_sg for the buffer.
BufInUse(data) ==
    \E t \in Threads : arg[t].op \in {"map", "unmap"} /\ arg[t].data = data

\* The call: the buffer's owner frees it once, when no client holds it any more
\* (lines 221-225: clients hold the dma_buf while they map and unmap).
BufFreedCall(t, data) ==
    /\ CanCall(t)
    /\ data \in scope.bufs
    /\ bufState[data] = "live"
    /\ ~BufInUse(data)
    /\ bufState' = [bufState EXCEPT ![data] = "freeing"]
    /\ arg' = [arg EXCEPT ![t] = [op |-> "buf_freed", dev |-> NoOne,
                                   data |-> data, dir |-> NoOne]]
    /\ retry' = [retry EXCEPT ![t] = 0]
    /\ ret' = [ret EXCEPT ![t] = NoRet]
    /\ pc' = [pc EXCEPT ![t] = "buf_freed_lock"]
    /\ calls' = calls + 1
    /\ UNCHANGED <<todo, iommu_map_lock, lock, iommu_map_list, map_list, heap,
                   extMap, extUnmap, hist, scope,
                   passes, klog>>

\* do { mutex_lock(&data->lock); and the start of list_for_each_entry_safe.
BufFreedLock(t) ==
    /\ pc[t] = "buf_freed_lock"
    /\ lock[arg[t].data] = NoOne
    /\ lock' = [lock EXCEPT ![arg[t].data] = t]
    /\ todo' = [todo EXCEPT ![t] = map_list[arg[t].data]]
    /\ pc' = [pc EXCEPT ![t] = "buf_freed_iter"]
    /\ passes' = [passes EXCEPT ![t] = IF @ < scope.passes THEN @ + 1 ELSE @]
    /\ UNCHANGED <<arg, retry, ret, iommu_map_lock, iommu_map_list, map_list,
                   heap, bufState, extMap, extUnmap, hist, calls, scope, klog>>

\* A drain that waits for the device lock with mutex_lock.
BufFreedLockDev(t) ==
    /\ pc[t] = "buf_freed_iter"
    /\ todo[t] # <<>>
    /\ LET dev == heap[Head(todo[t])].dev
       IN /\ iommu_map_lock[dev] = NoOne
          /\ iommu_map_lock' = [iommu_map_lock EXCEPT ![dev] = t]
    /\ pc' = [pc EXCEPT ![t] = "buf_freed_free"]
    /\ UNCHANGED <<arg, todo, retry, ret, lock, iommu_map_list, map_list, heap,
                   bufState, extMap, extUnmap, hist, calls, scope,
                   passes, klog>>

\* A drain that tries the device lock again without leaving the loop, and so
\* without releasing data->lock.
BufFreedTrylockSpin(t) ==
    /\ pc[t] = "buf_freed_iter"
    /\ todo[t] # <<>>
    /\ LET dev == heap[Head(todo[t])].dev
       IN IF iommu_map_lock[dev] = NoOne
          THEN /\ iommu_map_lock' = [iommu_map_lock EXCEPT ![dev] = t]
               /\ pc' = [pc EXCEPT ![t] = "buf_freed_free"]
               /\ UNCHANGED retry
          ELSE /\ retry' = [retry EXCEPT ![t] = 1]
               /\ UNCHANGED <<pc, iommu_map_lock>>
    /\ UNCHANGED <<arg, todo, ret, lock, iommu_map_list, map_list, heap, bufState,
                   extMap, extUnmap, hist, calls, scope, passes, klog>>

\* if (!mutex_trylock(&dev->iommu_map_lock)) { retry = 1; break; }
BufFreedTrylock(t) ==
    /\ pc[t] = "buf_freed_iter"
    /\ todo[t] # <<>>
    /\ LET dev == heap[Head(todo[t])].dev
       IN IF iommu_map_lock[dev] = NoOne
          THEN /\ iommu_map_lock' = [iommu_map_lock EXCEPT ![dev] = t]
               /\ pc' = [pc EXCEPT ![t] = "buf_freed_free"]
               /\ UNCHANGED <<retry, todo>>
          ELSE /\ retry' = [retry EXCEPT ![t] = 1]
               /\ todo' = [todo EXCEPT ![t] = <<>>]
               /\ pc' = [pc EXCEPT ![t] = "buf_freed_unlock"]
               /\ UNCHANGED iommu_map_lock
    /\ UNCHANGED <<arg, ret, lock, iommu_map_list, map_list, heap, bufState,
                   extMap, extUnmap, hist, calls, scope,
                   passes, klog>>

\* msm_iommu_map_free(map); mutex_unlock(&dev->iommu_map_lock);
BufFreedFree(t) ==
    /\ pc[t] = "buf_freed_free"
    /\ LET map == Head(todo[t])
           dev == heap[map].dev
       IN /\ msm_iommu_map_free(map)
          /\ Log(dev, heap[map].data, Event(t, "buf_freed", 0))
          /\ iommu_map_lock' = [iommu_map_lock EXCEPT ![dev] = NoOne]
    /\ todo' = [todo EXCEPT ![t] = Tail(@)]
    /\ pc' = [pc EXCEPT ![t] = "buf_freed_iter"]
    /\ UNCHANGED <<arg, retry, ret, lock, bufState, extMap, calls, scope,
                   passes, klog>>

\* The list is exhausted.
BufFreedLoopEnd(t) ==
    /\ pc[t] = "buf_freed_iter"
    /\ todo[t] = <<>>
    /\ pc' = [pc EXCEPT ![t] = "buf_freed_unlock"]
    /\ UNCHANGED <<arg, todo, retry, ret, iommu_map_lock, lock, iommu_map_list,
                   map_list, heap, bufState, extMap, extUnmap, hist, calls, scope,
                   passes, klog>>

\* A drain that gives up after its first pass.
buf_freed_once(r) == FALSE

\* while (retry--): another pass when the last one met a held device lock.
buf_freed_again(r) == r # 0

\* mutex_unlock(&data->lock); } while (retry--);
BufFreedUnlock(t) ==
    /\ pc[t] = "buf_freed_unlock"
    /\ lock' = [lock EXCEPT ![arg[t].data] = NoOne]
    /\ IF buf_freed_again(retry[t])
       THEN /\ retry' = [retry EXCEPT ![t] = @ - 1]
            /\ pc' = [pc EXCEPT ![t] = "buf_freed_lock"]
            /\ UNCHANGED <<arg, bufState, passes, klog>>
       ELSE /\ retry' = [retry EXCEPT ![t] = 0]
            /\ bufState' = [bufState EXCEPT ![arg[t].data] = "freed"]
            /\ pc' = [pc EXCEPT ![t] = "idle"]
            /\ arg' = [arg EXCEPT ![t] = NoArg]
            /\ passes' = [passes EXCEPT ![t] = 0]
    /\ UNCHANGED <<todo, ret, iommu_map_lock, iommu_map_list, map_list, heap,
                   extMap, extUnmap, hist, calls, scope, klog>>

Next ==
    \/ \E t \in Threads, which \in NullArgs : MapNullArg(t, which)
    \/ \E t \in Threads, dev \in Devs, data \in Bufs, dir \in Dirs :
            MapLockDev(t, dev, data, dir)
    \/ \E t \in Threads : MapLockData(t)
    \/ \E t \in Threads, attrs \in AttrsSet, nents \in NentsSet :
            MapBody(t, attrs, nents)
    \/ \E t \in Threads : MapUnlockDev(t)
    \/ \E t \in Threads, dev \in Devs, data \in Bufs : UnmapLockDev(t, dev, data)
    \/ \E t \in Threads : UnmapLockData(t)
    \/ \E t \in Threads : UnmapBody(t)
    \/ \E t \in Threads : UnmapUnlockDev(t)
    \/ \E t \in Threads, dev \in Devs : UnmapAllLockDev(t, dev)
    \/ \E t \in Threads : UnmapAllLockData(t)
    \/ \E t \in Threads : UnmapAllFree(t)
    \/ \E t \in Threads : UnmapAllUnlockDev(t)
    \/ \E t \in Threads, data \in Bufs : BufFreedCall(t, data)
    \/ \E t \in Threads : BufFreedLock(t)
    \/ \E t \in Threads : BufFreedTrylock(t)
    \/ \E t \in Threads : BufFreedFree(t)
    \/ \E t \in Threads : BufFreedLoopEnd(t)
    \/ \E t \in Threads : BufFreedUnlock(t)

\* What a thread inside a call can do next.
Step(t) ==
    \/ MapLockData(t)
    \/ \E attrs \in AttrsSet, nents \in NentsSet : MapBody(t, attrs, nents)
    \/ MapUnlockDev(t)
    \/ UnmapLockData(t)
    \/ UnmapBody(t)
    \/ UnmapUnlockDev(t)
    \/ UnmapAllLockData(t)
    \/ UnmapAllFree(t)
    \/ UnmapAllUnlockDev(t)
    \/ BufFreedLock(t)
    \/ BufFreedTrylock(t)
    \/ BufFreedFree(t)
    \/ BufFreedLoopEnd(t)
    \/ BufFreedUnlock(t)

Spec == Init /\ [][Next]_vars

SpecPair == InitPair /\ [][Next]_vars

\* A thread inside a call keeps running, and a thread waiting in mutex_lock
\* gets the mutex if it is free again and again.
SpecLive == InitLive /\ [][Next]_vars /\ \A t \in Threads : SF_vars(Step(t))

\* ------------------------------------------------------- reading the state
\* An entry of data->map_list stands for (dev, data); an entry whose object was
\* freed stands for any pair.
BufIndexHas(dev, data) ==
    \E i \in 1..Len(map_list[data]) :
        LET id == map_list[data][i]
        IN id \notin DOMAIN heap \/ heap[id].dev = dev

DevIndexHas(dev, data) ==
    \E i \in 1..Len(iommu_map_list[dev]) :
        LET id == iommu_map_list[dev][i]
        IN id \notin DOMAIN heap \/ heap[id].data = data

Cached(dev, data) == BufIndexHas(dev, data) \/ DevIndexHas(dev, data)

MapEvents == {"create_lazy", "create_not_lazy", "hit"}

\* h is n successful maps followed by n unmaps, n >= 1.
MapsThenUnmaps(h) ==
    /\ Len(h) >= 2
    /\ Len(h) % 2 = 0
    /\ \A i \in 1..Len(h) :
         IF 2 * i <= Len(h) THEN h[i].ev \in MapEvents ELSE h[i].ev = "unmap"

\* ------------------------------------------------------------------ claims
\* C1 (refcount balance), for a mapping made with DMA_ATTR_NO_DELAYED_UNMAP,
\* where no reference is kept back for the buffer-free path: after N successful
\* maps of (dev, data) followed by N unmaps the record is in neither list and
\* dma_unmap_sg has been called exactly once.
C1_RefcountBalance ==
    \A dev \in Devs, data \in Bufs :
        (MapsThenUnmaps(hist[dev][data]) /\ hist[dev][data][1].ev = "create_not_lazy")
            => /\ ~Cached(dev, data)
               /\ extUnmap[dev][data] = 1

\* Both events are successful maps.
TwoMaps(h) == Len(h) = 2 /\ h[1].ev \in MapEvents /\ h[2].ev \in MapEvents

\* C2 (dedup): when the first two things that happen to a pair are two
\* successful maps, dma_map_sg_attrs was called once for the pair, the second
\* map is a hit, and both calls got the same device address; once the pair has
\* a record, a map of it does not fail.
C2_Dedup ==
    \A dev \in Devs, data \in Bufs :
        LET h == hist[dev][data]
        IN /\ TwoMaps(h) =>
                /\ extMap[dev][data] = 1
                /\ h[1].ev # "hit" /\ h[2].ev = "hit"
                /\ h[1].addr = h[2].addr
           /\ \A t \in Threads :
                (/\ pc[t] = "map_unlock_dev"
                 /\ arg[t].dev = dev /\ arg[t].data = data
                 /\ Len(h) \in {1, 2}
                 /\ \A i \in 1..Len(h) : h[i].ev \in MapEvents)
                    => /\ ret[t].nents > 0
                       /\ ret[t].dma_address = h[1].addr

\* Two maps of one pair by two threads, the second about to return.
C2_Witness ==
    \E dev \in Devs, data \in Bufs, t \in Threads :
        /\ TwoMaps(hist[dev][data])
        /\ hist[dev][data][1].by # hist[dev][data][2].by
        /\ pc[t] = "map_unlock_dev" /\ arg[t].dev = dev /\ arg[t].data = data
        /\ hist[dev][data][2].by = t

Last(h) == h[Len(h)]
Front(h) == SubSeq(h, 1, Len(h) - 1)

\* The record msm_iommu_map_lookup would find for the pair.
RecordOf(dev, data) == msm_iommu_map_lookup(data, dev)

\* C3 (mismatch rejection): a map that finds a record made for another
\* direction fails and leaves every record as it was.
C3_MismatchRejected ==
    [][\A t \in Threads :
         (/\ pc[t] = "map_body" /\ pc'[t] = "map_unlock_dev"
          /\ RecordOf(arg[t].dev, arg[t].data) # NULL
          /\ heap[RecordOf(arg[t].dev, arg[t].data)].dir # arg[t].dir)
            => /\ ret'[t].nents <= 0
               /\ heap' = heap]_vars

\* C4 (buffer teardown): once msm_dma_buf_freed has returned for a buffer, no
\* record of the buffer is left in its own list, in any device's list, or
\* allocated.
C4_BufferTeardown ==
    \A data \in Bufs :
        bufState[data] = "freed"
            => /\ map_list[data] = <<>>
               /\ \A dev \in Devs : ~DevIndexHas(dev, data)
               /\ \A id \in DOMAIN heap : heap[id].data # data

\* A freed buffer whose records on both devices were released by the drain,
\* each still holding references.
C4_Witness ==
    \E data \in Bufs :
        /\ bufState[data] = "freed"
        /\ \A dev \in Devs :
             /\ Len(hist[dev][data]) >= 2
             /\ Last(hist[dev][data]).ev = "buf_freed"
             /\ Last(Front(hist[dev][data])).ev \in MapEvents

\* C5 (device teardown): the step by which msm_dma_unmap_all_for_dev returns
\* leaves the device's list empty and no record of the device in any buffer's
\* list or allocated.
C5_DeviceTeardown ==
    [][\A t \in Threads :
         (pc[t] = "unmap_all_iter" /\ pc'[t] = "idle")
            => /\ iommu_map_list'[arg[t].dev] = <<>>
               /\ \A data \in Bufs : ~(BufIndexHas(arg[t].dev, data))'
               /\ \A id \in DOMAIN heap' : heap'[id].dev # arg[t].dev]_vars

\* The teardown is about to return after releasing the device's records on
\* both buffers, one of them with more than one reference.
C5_Witness ==
    \E t \in Threads :
        /\ pc[t] = "unmap_all_iter" /\ todo[t] = <<>>
        /\ \A data \in Bufs :
             /\ Len(hist[arg[t].dev][data]) >= 2
             /\ Last(hist[arg[t].dev][data]) = [by |-> t, ev |-> "dev_teardown", addr |-> 0]
        /\ \E data \in Bufs :
             Last(Front(hist[arg[t].dev][data])).ev \in {"create_lazy", "hit"}

\* C6 (idempotent unmap): the body of an unmap of a pair that has no record
\* leaves every record, both lists of every device and buffer, and the count
\* of dma_unmap_sg calls as they were.
C6_IdempotentUnmap ==
    [][\A t \in Threads :
         (/\ pc[t] = "unmap_body" /\ pc'[t] = "unmap_unlock_dev"
          /\ ~Cached(arg[t].dev, arg[t].data))
            => /\ heap' = heap
               /\ map_list' = map_list
               /\ iommu_map_list' = iommu_map_list
               /\ extUnmap' = extUnmap]_vars

\* An unmap of a never-mapped pair has run its body while the buffer has a
\* record for the other device and the device has one for the other buffer.
C6_Witness ==
    \E t \in Threads :
        /\ pc[t] = "unmap_unlock_dev"
        /\ hist[arg[t].dev][arg[t].data] = <<[by |-> t, ev |-> "unmap", addr |-> 0]>>
        /\ \E dev \in Devs \ {arg[t].dev} : RecordOf(dev, arg[t].data) # NULL
        /\ \E data \in Bufs \ {arg[t].data} : RecordOf(arg[t].dev, data) # NULL

\* C7 (initial refcount): a record that has just been created has refcount 1
\* when the caller set DMA_ATTR_NO_DELAYED_UNMAP and 2 when it did not.
C7_InitialRefcount ==
    \A dev \in Devs, data \in Bufs :
        LET h == hist[dev][data]
        IN (Len(h) >= 1 /\ Last(h).ev \in {"create_lazy", "create_not_lazy"})
            => /\ RecordOf(dev, data) # NULL
               /\ heap[RecordOf(dev, data)].refcount =
                    IF Last(h).ev = "create_not_lazy" THEN 1 ELSE 2

\* h is a lazy creation followed by hits and unmaps, as many unmaps as maps.
LazyBalanced(h) ==
    /\ Len(h) >= 2
    /\ h[1].ev = "create_lazy"
    /\ \A i \in 2..Len(h) : h[i].ev \in {"hit", "unmap"}
    /\ Cardinality({i \in 1..Len(h) : h[i].ev = "unmap"})
         = 1 + Cardinality({i \in 1..Len(h) : h[i].ev = "hit"})

\* C8 (delayed unmap): after k maps and k unmaps of a pair mapped without
\* DMA_ATTR_NO_DELAYED_UNMAP the record is still in both lists with refcount 1
\* and dma_unmap_sg has not been called; a map that comes next is a hit and
\* dma_map_sg_attrs is not called again; and when msm_dma_buf_freed then
\* releases the record, dma_unmap_sg has been called once in all.
C8_DelayedUnmap ==
    \A dev \in Devs, data \in Bufs :
        LET h == hist[dev][data]
        IN /\ LazyBalanced(h) =>
                /\ BufIndexHas(dev, data) /\ DevIndexHas(dev, data)
                /\ heap[RecordOf(dev, data)].refcount = 1
                /\ extUnmap[dev][data] = 0
                /\ extMap[dev][data] = 1
           /\ (Len(h) >= 3 /\ LazyBalanced(Front(h)) /\ Last(h).ev \in MapEvents) =>
                /\ Last(h).ev = "hit"
                /\ extMap[dev][data] = 1
                /\ extUnmap[dev][data] = 0
           /\ (/\ Len(h) >= 4 /\ LazyBalanced(Front(Front(h)))
               /\ Last(Front(h)).ev = "hit" /\ Last(h).ev = "buf_freed") =>
                /\ ~Cached(dev, data)
                /\ extMap[dev][data] = 1
                /\ extUnmap[dev][data] = 1

\* Map, unmap, a map that hits, and the buffer freed.
C8_Witness ==
    \E dev \in Devs, data \in Bufs :
        LET h == hist[dev][data]
        IN /\ Len(h) = 4
           /\ h[1].ev = "create_lazy" /\ h[2].ev = "unmap"
           /\ h[3].ev = "hit" /\ h[4].ev = "buf_freed"
           /\ bufState[data] = "freed"

\* C9 (failed map): a map that misses and whose dma_map_sg_attrs fails returns
\* 0 and leaves every record and both lists as they were; and a map that
\* returns holds no lock.
C9_FailedMap ==
    [][\A t \in Threads :
         /\ (/\ pc[t] = "map_body" /\ pc'[t] = "map_unlock_dev"
             /\ RecordOf(arg[t].dev, arg[t].data) = NULL
             /\ extMap' = extMap)
               => /\ ret'[t].nents = 0
                  /\ heap' = heap
                  /\ map_list' = map_list
                  /\ iommu_map_list' = iommu_map_list
                  /\ extUnmap' = extUnmap
                  /\ lock'[arg[t].data] = NoOne
         /\ (pc[t] = "map_unlock_dev" /\ pc'[t] = "idle")
               => /\ \A dev \in Devs : iommu_map_lock'[dev] # t
                  /\ \A data \in Bufs : lock'[data] # t]_vars

\* A map has failed while other records exist.
C9_Witness ==
    \E t \in Threads :
        /\ pc[t] = "map_unlock_dev"
        /\ ret[t].nents = 0
        /\ RecordOf(arg[t].dev, arg[t].data) = NULL
        /\ DOMAIN heap # {}

\* The holder of the mutex a thread is about to take, by mutex_lock or by
\* mutex_trylock.
Wanted(t) ==
    CASE pc[t] \in {"map_lock_data", "unmap_lock_data", "buf_freed_lock"}
            -> lock[arg[t].data]
      [] pc[t] = "unmap_all_iter" /\ todo[t] # <<>>
            -> lock[heap[Head(todo[t])].data]
      [] pc[t] = "buf_freed_iter" /\ todo[t] # <<>>
            -> iommu_map_lock[heap[Head(todo[t])].dev]
      [] OTHER -> NoOne

Blocked(t) == pc[t] # "idle" /\ ~ENABLED Step(t)

HoldsBufLock(t) == \E data \in Bufs : lock[data] = t

\* C10 (deadlock freedom): there is no set of threads each of which cannot
\* move and waits for a mutex held by a thread of the set; a thread inside
\* map, unmap or unmap_all that holds a buffer lock holds its device lock; and
\* a thread at msm_dma_buf_freed's mutex_trylock is never blocked.
C10_DeadlockFree ==
    /\ ~\E S \in SUBSET Threads :
          /\ S # {}
          /\ \A t \in S : Blocked(t) /\ Wanted(t) \in S
    /\ \A t \in Threads :
          (HoldsBufLock(t) /\ arg[t].op \in {"map", "unmap", "unmap_all"})
             => iommu_map_lock[arg[t].dev] = t
    /\ \A t \in Threads : pc[t] = "buf_freed_iter" => ~Blocked(t)

\* The buffer-free drain holds the buffer lock and finds the device lock held
\* by a thread that is waiting for that buffer lock.
C10_Witness ==
    \E t \in Threads, u \in Threads :
        /\ t # u
        /\ pc[t] = "buf_freed_iter" /\ todo[t] # <<>>
        /\ Wanted(t) = u
        /\ Blocked(u) /\ Wanted(u) = t

\* C11 (drain progress): every msm_dma_buf_freed call returns.
C11_DrainProgress ==
    \A t \in Threads : (arg[t].op = "buf_freed") ~> (pc[t] = "idle")

\* C12 (fail-fast validation): a map called with a NULL device or buffer
\* returns an error to its caller, and the call takes no mutex, calls neither
\* dma_map_sg_attrs nor dma_unmap_sg and leaves every record and list alone.
C12_FailFast ==
    [][\A t \in Threads :
         (pc[t] = "idle" /\ arg'[t].op = "map_null")
            => /\ pc'[t] = "idle"
               /\ ret'[t].nents < 0
               /\ iommu_map_lock' = iommu_map_lock /\ lock' = lock
               /\ extMap' = extMap /\ extUnmap' = extUnmap
               /\ heap' = heap
               /\ map_list' = map_list /\ iommu_map_list' = iommu_map_list]_vars

\* The records linked in data->map_list or in dev->iommu_map_list.
Linked ==
    {id \in DOMAIN heap :
        \/ \E i \in 1..Len(map_list[heap[id].data]) : map_list[heap[id].data][i] = id
        \/ \E i \in 1..Len(iommu_map_list[heap[id].dev]) :
                iommu_map_list[heap[id].dev][i] = id}

\* C13 (I1): every record linked in a list has refcount >= 1 whenever its
\* buffer's lock is free, and whenever msm_dma_map_sg_attrs or
\* msm_dma_unmap_sg holds that lock and is about to look the record up: no
\* map or unmap ever finds a record with refcount 0 or less.
C13_RefcountAtLeastOne ==
    \A id \in Linked :
        (\/ lock[heap[id].data] = NoOne
         \/ \E t \in Threads : /\ lock[heap[id].data] = t
                               /\ pc[t] \in {"map_body", "unmap_body"})
            => heap[id].refcount >= 1

\* (dev, data) has just been put into, or taken out of, one of the two lists.
MembershipChanges(dev, data) ==
    \/ BufIndexHas(dev, data) # BufIndexHas(dev, data)'
    \/ DevIndexHas(dev, data) # DevIndexHas(dev, data)'

\* C14 (I2): whenever no thread holds both the device's and the buffer's lock,
\* a record for (dev, data) is in data->map_list exactly when it is in
\* dev->iommu_map_list; and every step that links or unlinks a record does so
\* in both lists at once, taken by a thread that holds both locks.
C14_BothIndexes ==
    /\ [](\A dev \in Devs, data \in Bufs :
            (~\E t \in Threads : iommu_map_lock[dev] = t /\ lock[data] = t)
               => (BufIndexHas(dev, data) <=> DevIndexHas(dev, data)))
    /\ [][\A dev \in Devs, data \in Bufs :
            MembershipChanges(dev, data)
               => /\ BufIndexHas(dev, data) <=> DevIndexHas(dev, data)
                  /\ BufIndexHas(dev, data)' <=> DevIndexHas(dev, data)'
                  /\ BufIndexHas(dev, data) # BufIndexHas(dev, data)'
                  /\ \E t \in Threads : iommu_map_lock[dev] = t /\ lock[data] = t]_vars

\* One record has been linked and unlinked again, and another is linked.
C14_Witness ==
    /\ \E dev \in Devs, data \in Bufs :
          /\ extMap[dev][data] = 1 /\ extUnmap[dev][data] = 1
          /\ ~Cached(dev, data)
    /\ \E dev \in Devs, data \in Bufs :
          BufIndexHas(dev, data) /\ DevIndexHas(dev, data)

\* C15 (key uniqueness): no data->map_list holds two records of one device and
\* no dev->iommu_map_list holds two records of one buffer.
C15_KeyUnique ==
    /\ \A data \in Bufs :
          \A i, j \in 1..Len(map_list[data]) :
              i # j => heap[map_list[data][i]].dev # heap[map_list[data][j]].dev
    /\ \A dev \in Devs :
          \A i, j \in 1..Len(iommu_map_list[dev]) :
              i # j => heap[iommu_map_list[dev][i]].data
                          # heap[iommu_map_list[dev][j]].data

\* A buffer mapped for both devices, and one of the pairs mapped a second time.
C15_Witness ==
    \E data \in Bufs :
        /\ Len(map_list[data]) = 2
        /\ \E dev \in Devs :
              /\ Len(hist[dev][data]) >= 2
              /\ Last(hist[dev][data]).ev = "hit"

\* C16 (bounded retry): one msm_dma_buf_freed call makes no more than a fixed
\* number of passes over data->map_list, however often mutex_trylock fails;
\* checked for the bound MaxPasses - 1.
C16_BoundedRetry ==
    \A t \in Threads : passes[t] < MaxPasses

\* The thread is about to take the device lock of the record it has reached,
\* and another thread holds that lock.
DevLockTaken(t) ==
    /\ pc[t] = "buf_freed_iter"
    /\ todo[t] # <<>>
    /\ iommu_map_lock[heap[Head(todo[t])].dev] # NoOne

\* The mutex_lock(&data->lock) thread u is waiting in.
WaitsForBufLock(u) ==
    CASE pc[u] \in {"map_lock_data", "unmap_lock_data"} -> arg[u].data
      [] pc[u] = "unmap_all_iter" /\ todo[u] # <<>> -> heap[Head(todo[u])].data
      [] OTHER -> NoOne

\* C17 (no blocking wait under a buffer lock): a thread that holds a
\* data->lock and finds a device lock taken is not blocked; its next step
\* leaves the loop with retry = 1, and the step after that releases
\* data->lock before the device lock is tried again; and once it is released,
\* the thread that holds the device lock and waits for that data->lock can go
\* on.
C17_NoWaitUnderBufLock ==
    /\ [](\A t \in Threads : (HoldsBufLock(t) /\ DevLockTaken(t)) => ~Blocked(t))
    /\ [][\A t \in Threads :
            /\ (DevLockTaken(t) /\ <<pc[t], retry[t]>> # <<pc'[t], retry'[t]>>)
                  => /\ pc'[t] = "buf_freed_unlock"
                     /\ retry'[t] = 1
                     /\ iommu_map_lock' = iommu_map_lock
            /\ (pc[t] = "buf_freed_unlock" /\ pc'[t] # pc[t])
                  => /\ lock'[arg[t].data] = NoOne
                     /\ retry[t] = 1 => pc'[t] = "buf_freed_lock"]_vars
    /\ [](\A t \in Threads, u \in Threads :
            (/\ pc[t] = "buf_freed_lock"
             /\ WaitsForBufLock(u) = arg[t].data
             /\ lock[arg[t].data] = NoOne)
               => ENABLED Step(u))

\* After a failed mutex_trylock the drain has released data->lock, and the
\* holder of the device lock, which waits for that data->lock, can take it.
C17_Witness ==
    \E t \in Threads, u \in Threads :
        /\ t # u
        /\ pc[t] = "buf_freed_lock"
        /\ passes[t] >= 1
        /\ pc[u] = "unmap_all_iter"
        /\ WaitsForBufLock(u) = arg[t].data
        /\ iommu_map_lock[arg[u].dev] = u
        /\ lock[arg[t].data] = NoOne

\* msm_dma_buf_freed has released a record of the buffer.
ForcedRelease(data) ==
    \E dev \in Devs : \E i \in 1..Len(hist[dev][data]) :
        hist[dev][data][i].ev = "buf_freed"

\* C18 (buffer-free warning): once msm_dma_buf_freed has released a record of
\* a buffer, a warning about the buffer is in the kernel log; when it returns
\* without having released any, there is none.
C18_BufFreedWarning ==
    \A data \in Bufs :
        /\ ForcedRelease(data) => klog[data] >= 1
        /\ (bufState[data] = "freed" /\ ~ForcedRelease(data)) => klog[data] = 0

\* C19 (single release): dma_unmap_sg has never been called more often for a
\* pair than dma_map_sg_attrs has succeeded for it; every call of it is one
\* call, made in the step that takes the pair's record out of both lists; and
\* an msm_dma_unmap_sg that finds no record, as after a forced release, calls
\* it not at all.
C19_SingleRelease ==
    /\ [](\A dev \in Devs, data \in Bufs : extUnmap[dev][data] <= extMap[dev][data])
    /\ [][\A dev \in Devs, data \in Bufs :
            extUnmap'[dev][data] # extUnmap[dev][data]
               => /\ extUnmap'[dev][data] = extUnmap[dev][data] + 1
                  /\ extMap'[dev][data] = extMap[dev][data]
                  /\ BufIndexHas(dev, data) /\ DevIndexHas(dev, data)
                  /\ ~BufIndexHas(dev, data)' /\ ~DevIndexHas(dev, data)']_vars
    /\ [][\A t \in Threads :
            (/\ pc[t] = "unmap_body" /\ pc'[t] # pc[t]
             /\ ~Cached(arg[t].dev, arg[t].data))
               => extUnmap' = extUnmap]_vars

\* A pair was mapped, released by msm_dma_unmap_all_for_dev, and unmapped by
\* its holder afterwards.
C19_Witness ==
    \E dev \in Devs, data \in Bufs :
        LET h == hist[dev][data]
        IN /\ Len(h) >= 3
           /\ h[1].ev \in {"create_lazy", "create_not_lazy"}
           /\ h[Len(h) - 1].ev = "dev_teardown"
           /\ Last(h).ev = "unmap"
           /\ extMap[dev][data] = 1 /\ extUnmap[dev][data] = 1

\* The place in h of the event that created the pair's present record: the
\* last creation.
CreatedAt(h) ==
    CHOOSE k \in 1..Len(h) :
        /\ h[k].ev \in {"create_lazy", "create_not_lazy"}
        /\ \A i \in (k + 1)..Len(h) : h[i].ev \notin {"create_lazy", "create_not_lazy"}

\* Successful maps, the creating one included, and unmaps since then.
MapsSince(h, k) == Cardinality({i \in k..Len(h) : h[i].ev \in MapEvents})
UnmapsSince(h, k) == Cardinality({i \in k..Len(h) : h[i].ev = "unmap"})

\* C20 (refcount accounting): while a record for a pair exists, its refcount
\* is the number of successful maps since its creation, less the number of
\* unmaps since then, plus one if it was created without
\* DMA_ATTR_NO_DELAYED_UNMAP; and when a record created without the flag is
\* gone through unmaps alone, the unmaps since its creation are at least one
\* more than the maps.
C20_RefcountAccounting ==
    \A dev \in Devs, data \in Bufs :
        LET h == hist[dev][data]
            k == CreatedAt(h)
        IN /\ RecordOf(dev, data) # NULL =>
                heap[RecordOf(dev, data)].refcount =
                    MapsSince(h, k) - UnmapsSince(h, k)
                      + (IF h[k].ev = "create_lazy" THEN 1 ELSE 0)
           /\ (/\ RecordOf(dev, data) = NULL
               /\ \E i \in 1..Len(h) : h[i].ev = "create_lazy"
               /\ h[k].ev = "create_lazy"
               /\ \A i \in (k + 1)..Len(h) : h[i].ev \in {"hit", "unmap"})
                 => UnmapsSince(h, k) >= MapsSince(h, k) + 1
====
